---- MODULE Spec2Model ----
(***************************************************************************)
(* React-SpringBoot-TodoApp: the task list of the React client (App,       *)
(* TaskForm, TaskItem), the HTTP requests it has in flight, and the        *)
(* Spring Boot TaskController with its JPA repository.                     *)
(***************************************************************************)
EXTENDS Integers, Sequences, FiniteSets, TLC

\* ---------------------------------------------------------------- bounds

\* Ids the IDENTITY column hands out in a run: 1..MaxId.
MaxId == 2

\* Requests the user triggers in a run (the initial list fetch comes on top).
MaxReq == 2

\* Requests that direct calls of App's functions may issue on top of those.
MaxDirect == 1

\* ------------------------------------------------------------------ data

\* A JavaScript `undefined` / Java `null` id (Task.id is optional on the client,
\* a nullable Long on the server).
Undefined == -1

Ids == 1..MaxId

\* Titles are strings, modelled as sequences of characters: the empty string,
\* a blank one, and one with a leading blank that trim would shorten.
Titles == {<<>>, <<" ">>, <<" ", "a">>}

IsSpace(c) == c = " "

\* String.prototype.trim: leading and trailing white space removed.
RECURSIVE TrimLeft(_)
TrimLeft(s) ==
    IF s = <<>> THEN <<>>
    ELSE IF IsSpace(Head(s)) THEN TrimLeft(Tail(s)) ELSE s

RECURSIVE TrimRight(_)
TrimRight(s) ==
    IF s = <<>> THEN <<>>
    ELSE IF IsSpace(s[Len(s)]) THEN TrimRight(SubSeq(s, 1, Len(s) - 1)) ELSE s

trim(s) == TrimRight(TrimLeft(s))

\* A JSON object as the client and the server exchange it. `error` marks the
\* body Spring Boot answers with on an error status ({timestamp, status, error,
\* path}): it has no id, no title and no completed.
Task(id, title, completed) ==
    [id |-> id, title |-> title, completed |-> completed, error |-> FALSE]

ErrObj == [id |-> Undefined, title |-> <<>>, completed |-> FALSE, error |-> TRUE]

\* JavaScript truthiness of a task's id (`task.id && ...`).
Truthy(id) == id # Undefined /\ id # 0

\* --------------------------------------------------------------- state

VARIABLES
    store,        \* server: the task table, id -> [title, completed]
    nextId,       \* server: the next value of the IDENTITY column
    mergeMissing, \* server: what save() does with an id that has no row
    last,         \* the last call made directly on the controller or on App, and its outcome
    tasks,        \* client: App's `tasks` state
    mounted,      \* client: the React tree is still mounted
    formTitle,    \* client: TaskForm's `title` state
    reqs,         \* client: every fetch issued so far, by issue order
    log           \* client: the requests whose handlers have run, in that order

vars == <<store, nextId, mergeMissing, last, tasks, mounted, formTitle, reqs, log>>

serverVars == <<store, nextId, mergeMissing>>
clientVars == <<tasks, mounted, formTitle, reqs, log>>

\* ------------------------------------------------------ server: repository

\* An HTTP answer: the status, what the body parses to ("array", "object", or
\* "none" for a body that is no JSON: an empty one, a gateway's HTML page), and
\* the JSON objects of the body (the elements of the array, or the one object).
Response(status, shape, body) == [status |-> status, shape |-> shape, body |-> body]

\* The status lines the client can see.
Ok == "200"
NotFound == "404"
ServerError == "500"

\* No answer yet.
NoResponse == Response("", "none", <<>>)

\* The state the server is left in together with its answer.
Outcome(st, nid, resp) == [store |-> st, nextId |-> nid, resp |-> resp]

Row(title, completed) == [title |-> title, completed |-> completed]

\* The entity read back from the table.
Entity(st, id) == Task(id, st[id].title, st[id].completed)

RECURSIVE SortedIds(_)
SortedIds(S) ==
    IF S = {} THEN <<>>
    ELSE LET m == CHOOSE x \in S : \A y \in S : x <= y
         IN <<m>> \o SortedIds(S \ {m})

\* A findAll that leaves the completed tasks out.
findAll_onlyOpen(st) ==
    LET ids == SortedIds({i \in DOMAIN st : ~st[i].completed})
    IN [i \in 1..Len(ids) |-> Entity(st, ids[i])]

\* JpaRepository.findAll
findAll(st) ==
    LET ids == SortedIds(DOMAIN st)
    IN [i \in 1..Len(ids) |-> Entity(st, ids[i])]

\* An INSERT whose id is the highest id of the table plus one.
Insert_maxPlusOne(st, nid, task) ==
    LET top == IF DOMAIN st = {} THEN 0
               ELSE CHOOSE x \in DOMAIN st : \A y \in DOMAIN st : y <= x
    IN Outcome(((top + 1) :> Row(task.title, task.completed)) @@ st, nid + 1,
               Response(Ok, "object", <<Task(top + 1, task.title, task.completed)>>))

\* An INSERT: the IDENTITY column assigns the id, whatever id the entity carried.
Insert(st, nid, task) ==
    Outcome((nid :> Row(task.title, task.completed)) @@ st, nid + 1,
            Response(Ok, "object", <<Task(nid, task.title, task.completed)>>))

\* A save that merges field by field and keeps the row's completed.
save_keepingCompleted(st, nid, mm, task) ==
    IF task.id = Undefined THEN Insert(st, nid, task)
    ELSE IF task.id \in DOMAIN st
    THEN Outcome([st EXCEPT ![task.id] = Row(task.title, st[task.id].completed)], nid,
                 Response(Ok, "object",
                          <<Task(task.id, task.title, st[task.id].completed)>>))
    ELSE IF mm = "insert" THEN Insert(st, nid, task)
    ELSE Outcome(st, nid, Response(ServerError, "object", <<ErrObj>>))

\* JpaRepository.save: persist an entity without id; merge one with an id.
\* Merging an id that has no row inserts a new row (Hibernate up to 6.5) or
\* throws (Hibernate 6.6 on): `mm` is which. The build is Spring Boot 3.5.6,
\* that is Hibernate 6.6.
save(st, nid, mm, task) ==
    IF task.id = Undefined THEN Insert(st, nid, task)
    ELSE IF task.id \in DOMAIN st
    THEN Outcome([st EXCEPT ![task.id] = Row(task.title, task.completed)], nid,
                 Response(Ok, "object", <<Task(task.id, task.title, task.completed)>>))
    ELSE IF mm = "insert" THEN Insert(st, nid, task)
    ELSE Outcome(st, nid, Response(ServerError, "object", <<ErrObj>>))

\* A deleteById whose statement is DELETE ... WHERE id <= ?: it takes the
\* older rows along.
deleteById_upTo(st, nid, id) ==
    Outcome([i \in {j \in DOMAIN st : j > id} |-> st[i]], nid, Response(Ok, "none", <<>>))

\* deleteById as Spring Data JPA 2 had it: a missing row is an
\* EmptyResultDataAccessException.
deleteById_throwing(st, nid, id) ==
    IF id \in DOMAIN st
    THEN Outcome([i \in DOMAIN st \ {id} |-> st[i]], nid, Response(Ok, "none", <<>>))
    ELSE Outcome(st, nid, Response(ServerError, "object", <<ErrObj>>))

\* JpaRepository.deleteById (Spring Data JPA 3): a missing row is ignored.
deleteById(st, nid, id) ==
    Outcome([i \in DOMAIN st \ {id} |-> st[i]], nid, Response(Ok, "none", <<>>))

\* ------------------------------------------------------ server: controller

\* GET /api/tasks
getAllTasks(st, nid) == Outcome(st, nid, Response(Ok, "array", findAll(st)))

\* POST /api/tasks
createTask(st, nid, mm, task) == save(st, nid, mm, task)

\* updateTask saving the body as it came, without task.setId(id).
updateTask_bodyId(st, nid, mm, id, task) == save(st, nid, mm, task)

\* updateTask saving the body as a new entity.
updateTask_noId(st, nid, mm, id, task) ==
    save(st, nid, mm, [task EXCEPT !.id = Undefined])

\* PUT /api/tasks/{id}
updateTask(st, nid, mm, id, task) ==
    save(st, nid, mm, [task EXCEPT !.id = id])

\* DELETE /api/tasks/{id}
TaskController_deleteTask(st, nid, id) == deleteById(st, nid, id)

\* The controller method a request is routed to.
Serve(st, nid, mm, kind, id, task) ==
    CASE kind = "list" -> getAllTasks(st, nid)
      [] kind = "add" -> createTask(st, nid, mm, task)
      [] kind = "toggle" -> updateTask(st, nid, mm, id, task)
      [] kind = "delete" -> TaskController_deleteTask(st, nid, id)

\* save() needs a fresh id when it inserts: the run is cut off at MaxId.
CanServe(st, nid, kind, id, task) ==
    \/ kind \in {"list", "delete"}
    \/ nid <= MaxId
    \/ kind = "add" /\ task.id \in DOMAIN st
    \/ kind = "toggle" /\ id \in DOMAIN st

NoTask == Task(Undefined, <<>>, FALSE)

NoLast ==
    [kind |-> "none", id |-> Undefined, task |-> NoTask,
     before |-> <<>>, resp |-> NoResponse]

\* --------------------------------------------------------------- initial

\* The list request App's effect sends when it mounts.
Request(kind, id, task, snap, at) ==
    [kind |-> kind, id |-> id, task |-> task, snap |-> snap, at |-> at,
     st |-> "sent", resp |-> NoResponse]

\* The table as the application finds it when it starts: empty, or holding a
\* task of an earlier session.
InitialStores == {<<>>, (1 :> Row(<<"a">>, FALSE))}

\* What the build's Hibernate does on merging an id without row.
MergeModes == {"throw"}

Init ==
    /\ store \in InitialStores
    /\ nextId = Cardinality(DOMAIN store) + 1
    /\ mergeMissing \in MergeModes
    /\ last = NoLast
    /\ tasks = <<>>
    /\ mounted = TRUE
    /\ formTitle = <<>>
    /\ reqs = <<Request("list", Undefined, NoTask, <<>>, 0)>>
    /\ log = <<>>

\* ------------------------------------------- the API called on its own

\* The request bodies a caller of the API may send.
Bodies == {Task(i, t, c) : i \in Ids \cup {Undefined}, t \in Titles, c \in BOOLEAN}

Api(kind, id, task) ==
    /\ CanServe(store, nextId, kind, id, task)
    /\ LET o == Serve(store, nextId, mergeMissing, kind, id, task)
       IN /\ store' = o.store
          /\ nextId' = o.nextId
          /\ last' = [kind |-> kind, id |-> id, task |-> task,
                      before |-> store, resp |-> o.resp]
    /\ UNCHANGED <<mergeMissing, clientVars>>

ApiGet == Api("list", Undefined, NoTask)
ApiPost == \E b \in Bodies : Api("add", Undefined, b)
ApiPut == \E i \in Ids, b \in Bodies : Api("toggle", i, b)
ApiDelete == \E i \in Ids : Api("delete", i, NoTask)

ServerNext == ApiGet \/ ApiPost \/ ApiPut \/ ApiDelete

ServerSpec == Init /\ [][ServerNext]_vars

\* ------------------------------------------------------------ the client

InFlight(r) == r \in DOMAIN reqs /\ reqs[r].st \in {"sent", "answered"}

\* fetch(...): one more request in flight. The handlers passed to .then close
\* over the `tasks` of the render the action was called in.
Fetch(kind, id, task) ==
    reqs' = Append(reqs, Request(kind, id, task, tasks, Len(log)))

\* Array.prototype.find: the first element with that id, or none.
Find(list, id) ==
    LET hits == {i \in DOMAIN list : list[i].id = id}
    IN IF hits = {} THEN 0 ELSE CHOOSE i \in hits : \A j \in hits : i <= j

\* Array.prototype.filter((t) => t.id !== id)
RECURSIVE FilterOut(_, _)
FilterOut(list, id) ==
    IF list = <<>> THEN <<>>
    ELSE IF Head(list).id = id THEN FilterOut(Tail(list), id)
    ELSE <<Head(list)>> \o FilterOut(Tail(list), id)

\* Array.prototype.map((t) => (t.id === id ? updatedTask : t))
MapReplace(list, id, updatedTask) ==
    [i \in DOMAIN list |-> IF list[i].id = id THEN updatedTask ELSE list[i]]

\* An addTask that trims the title before it sends the draft.
addTask_trimmed(task) == Fetch("add", Undefined, [task EXCEPT !.title = trim(task.title)])

\* App.addTask
addTask(task) == Fetch("add", Undefined, task)

\* A toggleTask that does not look the id up: it asks the server to complete
\* whatever task has that id.
toggleTask_blind(id) == Fetch("toggle", id, Task(id, <<>>, TRUE))

\* A toggleTask that sends the negation of what the server holds for the id,
\* where it holds a record, instead of the negation of the local entry.
toggleTask_fromStore(id) ==
    LET i == Find(tasks, id)
    IN IF i = 0 THEN UNCHANGED reqs
       ELSE IF id \in DOMAIN store
            THEN Fetch("toggle", id, Task(id, store[id].title, ~store[id].completed))
            ELSE Fetch("toggle", id, [tasks[i] EXCEPT !.completed = ~tasks[i].completed])

\* App.toggleTask
toggleTask(id) ==
    LET i == Find(tasks, id)
    IN IF i = 0 THEN UNCHANGED reqs
       ELSE Fetch("toggle", id, [tasks[i] EXCEPT !.completed = ~tasks[i].completed])

\* App.deleteTask
deleteTask(id) == Fetch("delete", id, NoTask)

\* TaskForm: the input's onChange
setTitle ==
    /\ mounted
    /\ \E t \in Titles : t # formTitle /\ formTitle' = t
    /\ UNCHANGED <<serverVars, last, tasks, mounted, reqs, log>>

\* A handleSubmit without the check of the title.
handleSubmit_unchecked ==
    /\ mounted
    /\ Len(reqs) <= MaxReq
    /\ addTask(Task(Undefined, formTitle, FALSE))
    /\ formTitle' = <<>>
    /\ UNCHANGED <<serverVars, last, tasks, mounted, log>>

\* TaskForm.handleSubmit
handleSubmit ==
    /\ mounted
    /\ Len(reqs) <= MaxReq
    /\ IF trim(formTitle) = <<>>
       THEN UNCHANGED <<formTitle, reqs>>
       ELSE /\ addTask(Task(Undefined, formTitle, FALSE))
            /\ formTitle' = <<>>
    /\ UNCHANGED <<serverVars, last, tasks, mounted, log>>

\* A checkbox that flips the local entry at once, before the server answers.
ClickToggle_optimistic ==
    /\ mounted
    /\ Len(reqs) <= MaxReq
    /\ \E i \in DOMAIN tasks :
          IF Truthy(tasks[i].id)
          THEN /\ toggleTask(tasks[i].id)
               /\ tasks' = [tasks EXCEPT ![i].completed = ~tasks[i].completed]
          ELSE UNCHANGED <<reqs, tasks>>
    /\ UNCHANGED <<serverVars, last, mounted, formTitle, log>>

\* TaskItem: the checkbox's onChange, task.id && onToggle(task.id)
ClickToggle ==
    /\ mounted
    /\ Len(reqs) <= MaxReq
    /\ \E i \in DOMAIN tasks :
          IF Truthy(tasks[i].id) THEN toggleTask(tasks[i].id) ELSE UNCHANGED reqs
    /\ UNCHANGED <<serverVars, last, tasks, mounted, formTitle, log>>

\* A delete button that removes the entry at once, before the server answers.
ClickDelete_optimistic ==
    /\ mounted
    /\ Len(reqs) <= MaxReq
    /\ \E i \in DOMAIN tasks :
          IF Truthy(tasks[i].id)
          THEN deleteTask(tasks[i].id) /\ tasks' = FilterOut(tasks, tasks[i].id)
          ELSE UNCHANGED <<reqs, tasks>>
    /\ UNCHANGED <<serverVars, last, mounted, formTitle, log>>

\* TaskItem: the button's onClick, task.id && onDelete(task.id)
ClickDelete ==
    /\ mounted
    /\ Len(reqs) <= MaxReq
    /\ \E i \in DOMAIN tasks :
          IF Truthy(tasks[i].id) THEN deleteTask(tasks[i].id) ELSE UNCHANGED reqs
    /\ UNCHANGED <<serverVars, last, tasks, mounted, formTitle, log>>

\* ------------------------------------------------------- the transport

\* The request reaches the controller, which serves it.
ServerHandle(r) ==
    /\ r \in DOMAIN reqs /\ reqs[r].st = "sent"
    /\ CanServe(store, nextId, reqs[r].kind, reqs[r].id, reqs[r].task)
    /\ LET o == Serve(store, nextId, mergeMissing, reqs[r].kind, reqs[r].id, reqs[r].task)
       IN /\ store' = o.store
          /\ nextId' = o.nextId
          /\ reqs' = [reqs EXCEPT ![r].st = "answered", ![r].resp = o.resp]
    /\ UNCHANGED <<mergeMissing, last, tasks, mounted, formTitle, log>>

\* The server side cannot serve the request (the database is unreachable, the
\* host is starting): an error status, with Spring Boot's JSON error body or
\* with a body that is no JSON. The table is not touched.
ServerFail(r) ==
    /\ r \in DOMAIN reqs /\ reqs[r].st = "sent"
    /\ \E resp \in {Response(ServerError, "object", <<ErrObj>>),
                    Response(ServerError, "none", <<>>)} :
          reqs' = [reqs EXCEPT ![r].st = "answered", ![r].resp = resp]
    /\ UNCHANGED <<serverVars, last, tasks, mounted, formTitle, log>>

\* A chain that, once rejected, sends its request again.
Settle_retry(r, st) ==
    LET done == [reqs EXCEPT ![r].st = st, ![r].snap = <<>>, ![r].task = NoTask,
                             ![r].resp = IF st = "rejected" THEN NoResponse ELSE @]
    IN reqs' = IF st = "rejected"
               THEN Append(done, Request(reqs[r].kind, reqs[r].id, reqs[r].task,
                                         reqs[r].snap, Len(log)))
               ELSE done

\* A chain whose rejection never arrives: the request stays pending.
Settle_pending(r, st) ==
    reqs' = IF st = "rejected" THEN reqs
            ELSE [reqs EXCEPT ![r].st = st, ![r].snap = <<>>, ![r].task = NoTask]

\* The promise chain of request r has ended: its closures are released, and
\* a chain that rejected never held an answer its handlers could use.
Settle(r, st) ==
    reqs' = [reqs EXCEPT ![r].st = st, ![r].snap = <<>>, ![r].task = NoTask,
                         ![r].resp = IF st = "rejected" THEN NoResponse ELSE @]

\* A chain with a .catch that puts back the list of the render the action
\* was called in.
TransportFail_rollback(r) ==
    /\ InFlight(r)
    /\ Settle(r, "rejected")
    /\ tasks' = reqs[r].snap
    /\ UNCHANGED <<serverVars, last, mounted, formTitle, log>>

\* fetch rejects: the request never arrived, or its answer never came back.
\* No .then handler of the chain runs; nothing catches the rejection.
TransportFail(r) ==
    /\ InFlight(r)
    /\ Settle(r, "rejected")
    /\ UNCHANGED <<serverVars, last, tasks, mounted, formTitle, log>>

\* The handlers written with functional updates, setTasks((cur) => ...): they
\* work on the list of the moment the answer is handled.
NextTasks_functional(q) ==
    CASE q.kind = "list" -> q.resp.body
      [] q.kind = "add" -> Append(tasks, q.resp.body[1])
      [] q.kind = "toggle" -> MapReplace(tasks, q.id, q.resp.body[1])
      [] q.kind = "delete" -> FilterOut(tasks, q.id)

\* Handlers of which the Add's appends the draft it sent, not the task the
\* server returned.
NextTasks_draft(q) ==
    CASE q.kind = "list" -> q.resp.body
      [] q.kind = "add" -> Append(q.snap, q.task)
      [] q.kind = "toggle" -> MapReplace(q.snap, q.id, q.resp.body[1])
      [] q.kind = "delete" -> FilterOut(q.snap, q.id)

\* What the .then handlers of request q pass to setTasks, given its answer.
NextTasks(q) ==
    CASE q.kind = "list" -> q.resp.body
      [] q.kind = "add" -> Append(q.snap, q.resp.body[1])
      [] q.kind = "toggle" -> MapReplace(q.snap, q.id, q.resp.body[1])
      [] q.kind = "delete" -> FilterOut(q.snap, q.id)

\* res.json() rejects on a body that is no JSON; deleteTask does not call it.
JsonRejects(q) == q.kind # "delete" /\ q.resp.shape = "none"

\* The list handler stored an object that is no array: TaskList's tasks.map
\* throws while rendering and React unmounts the tree.
RenderThrows(q) == q.kind = "list" /\ q.resp.shape # "array"

\* The answer arrives and the .then chain of the request runs. A state update
\* of an unmounted tree is dropped.
ClientHandle(r) ==
    /\ r \in DOMAIN reqs /\ reqs[r].st = "answered"
    /\ IF JsonRejects(reqs[r])
       THEN /\ Settle(r, "rejected")
            /\ UNCHANGED <<tasks, mounted, log>>
       ELSE /\ Settle(r, "done")
            /\ log' = Append(log, r)
            /\ tasks' = IF mounted THEN NextTasks(reqs[r]) ELSE tasks
            /\ mounted' = (mounted /\ ~RenderThrows(reqs[r]))
    /\ UNCHANGED <<serverVars, last, formTitle>>

Rids == 1..(MaxReq + MaxDirect + 1)

Next ==
    \/ setTitle
    \/ handleSubmit
    \/ ClickToggle
    \/ ClickDelete
    \/ \E r \in Rids : ServerHandle(r)
    \/ \E r \in Rids : ServerFail(r)
    \/ \E r \in Rids : TransportFail(r)
    \/ \E r \in Rids : ClientHandle(r)

Spec == Init /\ [][Next]_vars

\* The server side answers every request that reached it and the event loop
\* runs the handlers of every answer that arrived. Nothing obliges the
\* transport to fail.
Delivery ==
    \A r \in Rids :
        /\ WF_vars(ServerHandle(r) \/ ServerFail(r))
        /\ WF_vars(ClientHandle(r))

FairSpec == Spec /\ Delivery

\* ------------------------------------- App's functions called on their own

\* toggleTask called with any id, as a holder of a stale reference would: the
\* call and the list it found are kept in `last`.
CallToggle(id) ==
    /\ mounted
    /\ Len(reqs) <= MaxReq + MaxDirect
    /\ toggleTask(id)
    /\ last' = [kind |-> "toggleTask", id |-> id, task |-> NoTask,
                before |-> tasks, resp |-> NoResponse]
    /\ UNCHANGED <<serverVars, tasks, mounted, formTitle, log>>

AppNext ==
    \/ Next
    \/ \E id \in Ids : CallToggle(id)

AppSpec == Init /\ [][AppNext]_vars

\* ------------------------------------------- TaskItem rendered on its own

\* The tasks a TaskItem may be given: `id?: number` is any number, 0 too, or
\* absent.
ItemProps == {Task(i, <<"a">>, FALSE) : i \in Ids \cup {0, Undefined}}

\* A TaskItem is rendered with `task` and one of its two controls is
\* activated: `last` keeps the control, the callback it called ("none" if it
\* called none) and the argument of the call.
Activate(control, callback, task) ==
    /\ mounted
    /\ last' = [kind |-> IF Truthy(task.id) THEN callback ELSE "none",
                id |-> IF Truthy(task.id) THEN task.id ELSE Undefined,
                task |-> task, before |-> <<control>>, resp |-> NoResponse]
    /\ UNCHANGED <<serverVars, clientVars>>

\* onChange={() => task.id && onToggle(task.id)}
ItemCheckbox == \E task \in ItemProps : Activate("checkbox", "onToggle", task)

\* onClick={() => task.id && onDelete(task.id)}
ItemButton == \E task \in ItemProps : Activate("button", "onDelete", task)

ItemNext ==
    \/ Next
    \/ ItemCheckbox
    \/ ItemButton

ItemSpec == Init /\ [][ItemNext]_vars

\* ================================================================ claims

\* A request that is settled in this step.
Settles(r) == InFlight(r) /\ reqs'[r].st \in {"done", "rejected"}

\* The request settled in this step has failed: the transport failed it, or
\* the server answered with an error status.
FailsNow(r) ==
    Settles(r) /\ (reqs[r].st = "sent" \/ reqs[r].resp.status # Ok \/ reqs'[r].st = "rejected")

\* The handlers of request r run in this step on a success answer.
HandledOk(r) ==
    /\ r \in DOMAIN reqs /\ reqs[r].st = "answered" /\ reqs[r].resp.status = Ok
    /\ reqs'[r].st = "done"

HasId(list, id) == \E i \in DOMAIN list : list[i].id = id

\* C1: an Add whose request fails leaves the list as it is (or as it was when
\* Add was called): no phantom entry is appended.
AddFailureKeepsList ==
    [][\A r \in DOMAIN reqs :
          (reqs[r].kind = "add" /\ FailsNow(r)) => tasks' \in {tasks, reqs[r].snap}]_vars

\* C2: a Delete whose request fails leaves the entry with that id in the list,
\* unchanged.
DeleteFailureKeepsEntry ==
    [][\A r \in DOMAIN reqs :
          (reqs[r].kind = "delete" /\ FailsNow(r) /\ HasId(tasks, reqs[r].id))
          => \A i \in DOMAIN tasks :
                tasks[i].id = reqs[r].id => \E j \in DOMAIN tasks' : tasks'[j] = tasks[i]]_vars

\* C3: a Toggle whose request fails leaves the entry with that id, and every
\* other entry, unchanged.
ToggleFailureKeepsList ==
    [][\A r \in DOMAIN reqs :
          (reqs[r].kind = "toggle" /\ FailsNow(r) /\ HasId(tasks, reqs[r].id))
          => tasks' = tasks]_vars

\* C4: no failure is swallowed: the only signal the client gives of a failed
\* request is the rejection of its promise chain, so no Add, Toggle or Delete
\* whose handlers ran to the end had an error status.
NoFailureSwallowed ==
    \A r \in DOMAIN reqs :
        (reqs[r].kind # "list" /\ reqs[r].st = "done") => reqs[r].resp.status = Ok

\* C5: handling the success answer of an Add appends the returned task to the
\* list as it stood immediately before.
AddAppendsToCurrent ==
    [][\A r \in DOMAIN reqs :
          (reqs[r].kind = "add" /\ HandledOk(r) /\ mounted)
          => tasks' = Append(tasks, reqs[r].resp.body[1])]_vars

\* A delete of id i has been confirmed by the server, now or earlier.
DeleteConfirmed(i) ==
    \E r \in DOMAIN reqs :
        /\ reqs[r].kind = "delete" /\ reqs[r].id = i
        /\ reqs[r].st \in {"answered", "done"} /\ reqs[r].resp.status = Ok

\* C6: an entry with id i leaves the list only once a delete of i has been
\* confirmed by the server.
LeavesOnlyByConfirmedDelete ==
    [][\A i \in Ids :
          (HasId(tasks, i) /\ ~HasId(tasks', i)) => DeleteConfirmed(i)]_vars

\* The place of request r in the order the handlers ran (0: they have not).
Pos(r) ==
    IF \E k \in DOMAIN log : log[k] = r
    THEN CHOOSE k \in DOMAIN log : log[k] = r
    ELSE 0

\* Toggle t and Delete d of one id were in flight together, both succeeded,
\* the delete's answer was handled first and the toggle's answer is the last
\* one handled.
Race(t, d) ==
    /\ reqs[t].kind = "toggle" /\ reqs[d].kind = "delete" /\ reqs[t].id = reqs[d].id
    /\ reqs[t].st = "done" /\ reqs[d].st = "done"
    /\ reqs[t].resp.status = Ok /\ reqs[d].resp.status = Ok
    /\ 0 < Pos(d) /\ Pos(d) < Pos(t) /\ Pos(t) = Len(log)
    /\ reqs[t].at < Pos(d) /\ reqs[d].at < Pos(t)
    /\ mounted

\* C7: the last answer wins: after such a race the list holds the task the
\* toggle's answer carried, the delete handled before it notwithstanding.
RaceResurrects ==
    \A t, d \in DOMAIN reqs :
        Race(t, d) => \E j \in DOMAIN tasks : tasks[j] = reqs[t].resp.body[1]

\* C7's case: the resurrected entry has the id the server no longer holds.
RaceResurrectsWitness ==
    \E t, d \in DOMAIN reqs :
        /\ Race(t, d)
        /\ HasId(tasks, reqs[t].id)
        /\ reqs[t].id \notin DOMAIN store

\* C8: PUT of an id the store holds no record for answers not-found and leaves
\* the store as it was.
ReplaceUnknownFails ==
    (last.kind = "toggle" /\ last.id \notin DOMAIN last.before)
    => (last.resp.status = NotFound /\ store = last.before)

\* C9: POST with an empty or blank title fails and leaves the store as it was.
CreateRejectsBlankTitle ==
    (last.kind = "add" /\ trim(last.task.title) = <<>>)
    => (last.resp.status # Ok /\ store = last.before)

\* C10: DELETE of any id, present or not, succeeds and leaves no record with
\* that id; a second DELETE succeeds too and leaves the store as the first did.
DeleteIdempotent ==
    last.kind = "delete" =>
        /\ last.resp.status = Ok
        /\ last.id \notin DOMAIN store
        /\ LET again == TaskController_deleteTask(store, nextId, last.id)
           IN again.resp.status = Ok /\ again.store = store

\* C10's case: a DELETE of an id that has no record, in a store that has others.
DeleteIdempotentWitness ==
    /\ last.kind = "delete"
    /\ last.id \notin DOMAIN last.before
    /\ last.before # <<>>
    /\ store = last.before

\* The controller has just served a request of this kind.
Served(kind) == last.kind = kind

\* The row a request body asks for.
Sent == Row(last.task.title, last.task.completed)

\* C11: PUT of an existing id stores exactly the title and completed sent,
\* answers with that record, and a following list shows it.
ReplaceIsFull ==
    (Served("toggle") /\ last.id \in DOMAIN last.before) =>
        /\ last.id \in DOMAIN store
        /\ store[last.id] = Sent
        /\ last.resp = Response(Ok, "object",
                                <<Task(last.id, last.task.title, last.task.completed)>>)
        /\ LET listed == getAllTasks(store, nextId).resp.body
           IN \E k \in DOMAIN listed :
                 listed[k] = Task(last.id, last.task.title, last.task.completed)

\* C11's case: a PUT that changes both the title and completed of a record.
ReplaceIsFullWitness ==
    /\ Served("toggle") /\ last.id \in DOMAIN last.before
    /\ last.before[last.id].title # last.task.title
    /\ last.before[last.id].completed # last.task.completed

\* C12: PUT of an existing id leaves the set of ids as it was, answers with
\* the same id, and changes no other record.
ReplaceKeepsIdentity ==
    (Served("toggle") /\ last.id \in DOMAIN last.before) =>
        /\ DOMAIN store = DOMAIN last.before
        /\ last.resp.shape = "object" /\ last.resp.body[1].id = last.id
        /\ \A j \in DOMAIN last.before \ {last.id} : store[j] = last.before[j]

\* C12's case: a PUT that changes one record of a table that holds two.
ReplaceKeepsIdentityWitness ==
    /\ Served("toggle") /\ last.id \in DOMAIN last.before
    /\ Cardinality(DOMAIN last.before) >= 2
    /\ store[last.id] # last.before[last.id]

\* C13: an id that was assigned and whose record is gone never gets a record
\* again.
NoIdReuse ==
    [][\A i \in Ids : (i < nextId /\ i \notin DOMAIN store) => i \notin DOMAIN store']_vars

\* C13's case: a record is created after a record with a lower id was deleted.
NoIdReuseWitness ==
    /\ Served("add") /\ last.resp.status = Ok
    /\ \E i \in Ids : i < last.resp.body[1].id /\ i \notin DOMAIN store

\* C14: the record a successful POST persists and returns has completed = false.
CreateStartsIncomplete ==
    (Served("add") /\ last.resp.status = Ok) =>
        /\ last.resp.body[1].completed = FALSE
        /\ store[last.resp.body[1].id].completed = FALSE

\* C15: a PUT whose body carries another id than the path (or none) writes
\* and returns the record of the path id and changes no other record.
PathIdAuthoritative ==
    (Served("toggle") /\ last.task.id # last.id) =>
        /\ \A j \in DOMAIN last.before \ {last.id} :
              j \in DOMAIN store /\ store[j] = last.before[j]
        /\ last.id \in DOMAIN last.before => last.resp.status = Ok
        /\ last.resp.status = Ok =>
              /\ last.resp.body[1].id = last.id
              /\ last.id \in DOMAIN store /\ store[last.id] = Sent

\* C15's case: the body names another existing record than the path does.
PathIdAuthoritativeWitness ==
    /\ Served("toggle") /\ last.task.id # last.id
    /\ last.task.id \in DOMAIN last.before /\ last.id \in DOMAIN last.before
    /\ last.before[last.task.id] # Sent
    /\ store[last.id] # last.before[last.id]

\* C16: a successful POST adds one record under an id no record had, and
\* changes no record that existed, whether or not the body carries an id.
CreateAddsOneRecord ==
    (Served("add") /\ last.resp.status = Ok) =>
        LET n == last.resp.body[1].id
        IN /\ n \notin DOMAIN last.before
           /\ DOMAIN store = DOMAIN last.before \cup {n}
           /\ \A j \in DOMAIN last.before : store[j] = last.before[j]

\* C17: GET changes nothing, succeeds, and returns each record of the store
\* exactly once.
ListIsPure ==
    Served("list") =>
        /\ store = last.before
        /\ last.resp.status = Ok /\ last.resp.shape = "array"
        /\ Len(last.resp.body) = Cardinality(DOMAIN store)
        /\ \A i \in DOMAIN store :
              \E k \in DOMAIN last.resp.body :
                 last.resp.body[k] = Task(i, store[i].title, store[i].completed)

\* C17's case: a GET on a table of two records, one of them completed.
ListIsPureWitness ==
    /\ Served("list")
    /\ Cardinality(DOMAIN store) >= 2
    /\ \E i \in DOMAIN store : store[i].completed

\* C18: every request served with success acts on the store as on a map
\* keyed by id: a create adds a new key, a replace overwrites the value of an
\* existing key, a delete removes the key.
BehavesAsMap ==
    last.resp.status = Ok =>
        CASE Served("add") ->
                \E n \in Ids \ DOMAIN last.before :
                   store = (n :> Row(last.resp.body[1].title, last.resp.body[1].completed))
                           @@ last.before
          [] Served("toggle") ->
                /\ last.id \in DOMAIN last.before
                /\ store = [last.before EXCEPT ![last.id] = Sent]
          [] Served("delete") ->
                store = [j \in DOMAIN last.before \ {last.id} |-> last.before[j]]
          [] OTHER -> store = last.before

\* C19: a request is issued only by a step of the user, one request a step:
\* no step that settles a request, changes the list or runs a handler issues
\* one, so a failed request is never sent again by the client itself.
NoAutomaticRetry ==
    [][Len(reqs') # Len(reqs) =>
          /\ Len(reqs') = Len(reqs) + 1
          /\ SubSeq(reqs', 1, Len(reqs)) = reqs
          /\ tasks' = tasks /\ log' = log]_vars

\* C19's case: an Add has failed and no request followed it, though the user
\* could have issued one.
NoAutomaticRetryWitness ==
    /\ Len(reqs) <= MaxReq
    /\ reqs[Len(reqs)].kind = "add" /\ reqs[Len(reqs)].st = "rejected"

\* C20: under fair delivery every request in flight settles, and in the end
\* no request is in flight.
EveryCallSettles ==
    /\ \A r \in Rids : InFlight(r) ~> ~InFlight(r)
    /\ <>[](\A r \in Rids : ~InFlight(r))

\* C20's case: every request the run allows was issued, and all have settled,
\* by a handler or by a rejection.
EveryCallSettlesWitness ==
    /\ Len(reqs) = MaxReq + 1
    /\ \A r \in DOMAIN reqs : ~InFlight(r)
    /\ \E r \in DOMAIN reqs : reqs[r].st = "rejected"
    /\ \E r \in DOMAIN reqs : reqs[r].st = "done"

\* The initial list fetch is the first request of every run.
Loading == InFlight(1)

\* C21: the list is empty in the initial state and as long as the initial
\* list fetch has not settled, whatever the user does meanwhile; the success
\* answer of that fetch, once handled, makes the list the tasks it carried.
EmptyWhileLoading ==
    /\ [](Loading => tasks = <<>>)
    /\ [][HandledOk(1) => tasks' = reqs[1].resp.body]_vars

\* A request is issued in this step.
Issues == Len(reqs') = Len(reqs) + 1

\* The .then handlers of some answered request run to the end in this step.
Resumes == \E r \in DOMAIN reqs : reqs[r].st = "answered" /\ reqs'[r].st = "done"

\* C22: the list changes only in a step that handles the answer of a request;
\* the step that issues an Add, Toggle or Delete leaves the list as it is, so
\* nothing is added, flipped or removed while the request is in flight.
MutatedOnlyAtResume ==
    [][/\ Issues => tasks' = tasks
       /\ tasks' # tasks => (Resumes /\ ~Issues)]_vars

\* C22's case: a Delete and a Toggle are in flight and the list still shows
\* the entries as they were before the clicks.
MutatedOnlyAtResumeWitness ==
    /\ \E d \in DOMAIN reqs :
          /\ reqs[d].kind = "delete" /\ reqs[d].st = "sent"
          /\ HasId(tasks, reqs[d].id)
    /\ \E t \in DOMAIN reqs :
          /\ reqs[t].kind = "toggle" /\ reqs[t].st = "sent"
          /\ \E i \in DOMAIN tasks :
                tasks[i].id = reqs[t].id /\ tasks[i].completed # reqs[t].task.completed

\* The task of a success answer some request got, whose handlers ran.
ReturnedByServer(t) ==
    \E r \in DOMAIN reqs :
        /\ reqs[r].st = "done" /\ reqs[r].resp.status = Ok
        /\ reqs[r].kind \in {"list", "add", "toggle"}
        /\ \E k \in DOMAIN reqs[r].resp.body : reqs[r].resp.body[k] = t

\* C23: every element of the list is a task a success answer of a list, a
\* create or a replace carried, with an id the server assigned: no element
\* without an id and none built from an error answer.
NoDraftInList ==
    \A i \in DOMAIN tasks :
        /\ ~tasks[i].error
        /\ tasks[i].id \in Ids
        /\ ReturnedByServer(tasks[i])

\* C24: handling the success answer of a Toggle of id i puts the task the
\* server returned in the place of the entry with id i and leaves every other
\* entry of the list as it stood immediately before, in place: the length
\* does not change.
ToggleReplacesOneEntry ==
    [][\A r \in DOMAIN reqs :
          (reqs[r].kind = "toggle" /\ HandledOk(r) /\ mounted)
          => /\ Len(tasks') = Len(tasks)
             /\ \A i \in DOMAIN tasks :
                   tasks'[i] = IF tasks[i].id = reqs[r].id
                               THEN reqs[r].resp.body[1]
                               ELSE tasks[i]]_vars

\* C25: handling the success answer of a Delete of id i makes the list what
\* it was immediately before, less the entry with id i: the entries that
\* answers handled meanwhile added or changed stay, in their order.
DeleteRemovesOneEntry ==
    [][\A r \in DOMAIN reqs :
          (reqs[r].kind = "delete" /\ HandledOk(r) /\ mounted)
          => tasks' = FilterOut(tasks, reqs[r].id)]_vars

\* toggleTask is called in this step with an id no entry of the list has.
TogglesAbsent ==
    /\ last' # last /\ last'.kind = "toggleTask"
    /\ ~HasId(tasks, last'.id)

\* C26: toggleTask of an id no entry of the list has does nothing: no request
\* is issued, the list stays as it is, and nothing fails (no chain is
\* rejected, the tree stays mounted).
ToggleAbsentIsNoOp ==
    [][TogglesAbsent => UNCHANGED <<reqs, tasks, mounted, formTitle, log, serverVars>>]_vars

\* C26's case: toggleTask was just called with an id the list, which has
\* other entries, does not hold, while a request could have been issued.
ToggleAbsentIsNoOpWitness ==
    /\ last.kind = "toggleTask"
    /\ last.before # <<>> /\ ~HasId(last.before, last.id)
    /\ tasks = last.before /\ mounted
    /\ Len(reqs) <= MaxReq
    /\ \A r \in DOMAIN reqs : reqs[r].kind # "toggle"

\* The request issued in this step.
Issued == reqs'[Len(reqs')]

\* C27: the request a Toggle of id issues is a PUT on that id whose body is
\* the local entry with that id, completed negated and the title kept,
\* whatever the server holds for the id.
ToggleSendsLocalSnapshot ==
    [][(Issues /\ Issued.kind = "toggle") =>
          LET i == Find(tasks, Issued.id)
          IN /\ i # 0
             /\ Issued.task.id = Issued.id
             /\ Issued.task.title = tasks[i].title
             /\ Issued.task.completed = ~tasks[i].completed
             /\ ~Issued.task.error]_vars

\* C27's case: a Toggle is in flight whose body differs from the negation of
\* what the server holds for the id, the local entry being out of date.
ToggleSendsLocalSnapshotWitness ==
    \E t \in DOMAIN reqs :
        /\ reqs[t].kind = "toggle" /\ reqs[t].st = "sent"
        /\ reqs[t].id \in DOMAIN store
        /\ store[reqs[t].id].completed = reqs[t].task.completed
        /\ \E i \in DOMAIN tasks :
              /\ tasks[i].id = reqs[t].id
              /\ tasks[i].completed = ~reqs[t].task.completed

\* C28: serving a PUT or a DELETE of a path id leaves every record of another
\* id as it was: none is changed, none is added, none is removed.
OneRequestOneRecord ==
    (Served("toggle") \/ Served("delete")) =>
        \A j \in (DOMAIN last.before \cup DOMAIN store) \ {last.id} :
            /\ j \in DOMAIN last.before
            /\ j \in DOMAIN store
            /\ store[j] = last.before[j]

\* C28's case: a DELETE removed a record from a table that holds an older
\* record, which is still there.
OneRequestOneRecordWitness ==
    /\ Served("delete")
    /\ last.id \in DOMAIN last.before /\ last.id \notin DOMAIN store
    /\ \E j \in DOMAIN store : j < last.id

\* The form's input holds no character other than white space.
Blank == trim(formTitle) = <<>>

\* C29: submitting the form with an empty or blank title issues no request
\* and leaves the list and the input as they are; so every create request
\* issued carries a title with a character that is no white space.
ClientPreValidatesTitle ==
    /\ [][(handleSubmit /\ Blank) => UNCHANGED <<reqs, tasks, formTitle>>]_vars
    /\ [][(Issues /\ Issued.kind = "add") => (~Blank /\ trim(Issued.task.title) # <<>>)]_vars

\* C29's case: the input holds white space only, the form can be submitted,
\* and the one create request there is came from an earlier, accepted submit.
ClientPreValidatesTitleWitness ==
    /\ formTitle = <<" ">> /\ mounted /\ Len(reqs) <= MaxReq
    /\ Cardinality({r \in DOMAIN reqs : reqs[r].kind = "add"}) = 1
    /\ \E r \in DOMAIN reqs :
          reqs[r].kind = "add" /\ reqs[r].st = "sent" /\ trim(reqs[r].task.title) # <<>>

\* C30: the create request of an accepted submit carries no id, completed
\* false and the title as typed, untrimmed; the input is emptied in the
\* step that issues the request, and no later step of the request, success
\* or failure, touches the input.
AddSubmitsWellFormedDraft ==
    /\ [][(Issues /\ Issued.kind = "add") =>
             /\ Issued.task = Task(Undefined, formTitle, FALSE)
             /\ Issued.st = "sent"
             /\ formTitle' = <<>>]_vars
    /\ [][(\E r \in DOMAIN reqs : reqs'[r] # reqs[r]) => formTitle' = formTitle]_vars

\* C30's case: a create request whose title starts with a space was answered
\* with an error, and the input is still empty.
AddSubmitsWellFormedDraftWitness ==
    \E r \in DOMAIN reqs :
        /\ reqs[r].kind = "add" /\ reqs[r].st = "answered"
        /\ reqs[r].resp.status # Ok
        /\ reqs[r].task.title # trim(reqs[r].task.title)
        /\ formTitle = <<>>

\* The run so far is a sequential one of successes: every request was issued
\* once all earlier ones had been handled, and every one was handled on a
\* success answer.
Sequential ==
    /\ mounted
    /\ \A r \in DOMAIN reqs :
          /\ reqs[r].st = "done" /\ reqs[r].resp.status = Ok
          /\ reqs[r].at = r - 1

\* C31: in sequential use where every request succeeds, once an action has
\* settled the records of the list are the records of the server's table.
SequentialAgreement ==
    Sequential =>
        {tasks[i] : i \in DOMAIN tasks} = {Entity(store, i) : i \in DOMAIN store}

\* C31's case: a list, then an Add, then a Toggle, one after the other, all
\* successful, and the table holds a completed task.
SequentialAgreementWitness ==
    /\ Sequential
    /\ \E r \in DOMAIN reqs : reqs[r].kind = "add"
    /\ \E r \in DOMAIN reqs : reqs[r].kind = "toggle"
    /\ \E i \in DOMAIN store : store[i].completed

\* The chain of request r is rejected in this step.
RejectsNow(r) == InFlight(r) /\ reqs'[r].st = "rejected"

\* C32: when the fetch of a request rejects, none of the request's handlers
\* runs, then or later, and the list is left exactly as it is at that moment.
TransportFailureRunsNothing ==
    /\ [][\A r \in DOMAIN reqs :
             RejectsNow(r) => (tasks' = tasks /\ log' = log /\ mounted' = mounted)]_vars
    /\ [](\A r \in DOMAIN reqs : reqs[r].st = "rejected" => Pos(r) = 0)

\* C32's case: a Toggle reached the server, which flipped the record, and the
\* fetch rejected: the list still shows the old value.
TransportFailureRunsNothingWitness ==
    \E r \in DOMAIN reqs :
        /\ reqs[r].kind = "toggle" /\ reqs[r].st = "rejected"
        /\ reqs[r].id \in DOMAIN store
        /\ \E i \in DOMAIN tasks :
              /\ tasks[i].id = reqs[r].id
              /\ tasks[i].completed # store[reqs[r].id].completed
        /\ \A q \in DOMAIN reqs : q # r => reqs[q].kind # "toggle"

\* Request t is a Toggle of the id of the Toggle issued in this step, and its
\* answer has not been handled.
PendingTwin(t) ==
    /\ reqs[t].kind = "toggle" /\ reqs[t].id = Issued.id
    /\ InFlight(t)

\* Toggles a and b of one id have both succeeded and been handled, and the
\* list stands as the later of their handlers left it.
BothToggled(a, b) ==
    /\ a < b
    /\ reqs[a].kind = "toggle" /\ reqs[b].kind = "toggle" /\ reqs[a].id = reqs[b].id
    /\ reqs[a].st = "done" /\ reqs[b].st = "done"
    /\ reqs[a].resp.status = Ok /\ reqs[b].resp.status = Ok
    /\ reqs[b].at < Pos(a)
    /\ mounted
    /\ Len(log) \in {Pos(a), Pos(b)}
    /\ \A q \in DOMAIN reqs :
          (reqs[q].kind = "toggle" /\ reqs[q].id = reqs[a].id) => q \in {a, b}

\* Once for the pair: the server and the list hold, for the id, the value
\* both answers carry.
FlippedOnce(a, b) ==
    LET v == reqs[a].resp.body[1].completed
        id == reqs[a].id
    IN /\ reqs[b].resp.body[1].completed = v
       /\ id \in DOMAIN store => store[id].completed = v
       /\ HasId(tasks, id)
       /\ \A i \in DOMAIN tasks : tasks[i].id = id => tasks[i].completed = v

\* C33, as stated: a Toggle called while the answer of an earlier Toggle of
\* the same id has not been handled carries the completed value the earlier
\* one carries, and after both succeeded the server and the list hold that
\* value: the task is flipped once.
OverlappingTogglesAgree ==
    /\ [][(Issues /\ Issued.kind = "toggle") =>
             \A t \in DOMAIN reqs :
                PendingTwin(t) => Issued.task.completed = reqs[t].task.completed]_vars
    /\ [](\A a, b \in DOMAIN reqs : BothToggled(a, b) => FlippedOnce(a, b))

\* C33, amended: the same, for two calls between which no answer was handled,
\* so that both found the same list.
OverlappingTogglesOfOneList ==
    /\ [][(Issues /\ Issued.kind = "toggle") =>
             \A t \in DOMAIN reqs :
                (PendingTwin(t) /\ reqs[t].at = Len(log))
                => Issued.task.completed = reqs[t].task.completed]_vars
    /\ [](\A a, b \in DOMAIN reqs :
             (BothToggled(a, b) /\ reqs[a].at = reqs[b].at) => FlippedOnce(a, b))

\* C33's case: task 1, not completed when listed, was toggled twice with
\* nothing handled in between; both Toggles succeeded, and the table and the
\* list show it completed.
OverlappingTogglesOfOneListWitness ==
    \E a, b \in DOMAIN reqs :
        /\ BothToggled(a, b) /\ reqs[a].at = reqs[b].at
        /\ \A q \in DOMAIN reqs : reqs[q].kind \in {"list", "toggle"}
        /\ reqs[a].id \in DOMAIN store /\ store[reqs[a].id].completed
        /\ \E i \in DOMAIN tasks : tasks[i].id = reqs[a].id /\ tasks[i].completed

\* C34: no two elements of the list have the same id, whatever the order in
\* which the answers of the list, the Adds, the Toggles and the Deletes are
\* handled.
LocalIdsUnique ==
    \A i, j \in DOMAIN tasks :
        i # j => tasks[i].id # tasks[j].id

\* A control of a TaskItem was the last thing activated.
Activated(control) == last.before = <<control>>

====
